---- MODULE Spec2Model ----
(***************************************************************************)
(* Job application tracker: the mailbox scan of process_job_emails         *)
(* (src/job_application_tracker.py, the command-line variant "cli", and    *)
(* src/streamlit_job_tracker_app.py, the variant "streamlit"), with its    *)
(* classifier, irrelevance filter and upsert into the applications map.    *)
(*                                                                         *)
(* Text is a sequence of tokens.  A token is a group of characters that no *)
(* pattern of the program splits: a word, a stem of a word, one blank, one *)
(* newline or one punctuation mark.  A Python string is the concatenation  *)
(* of its tokens, so substring search is contiguous subsequence search.    *)
(***************************************************************************)
EXTENDS Integers, Sequences, FiniteSets, TLC

VARIABLES
    variant,          \* which source file runs: "cli" or "streamlit"
    inbox,            \* the mailbox: message id -> index into Catalogue
    email_ids,        \* process_job_emails: email_ids
    pc,               \* position in process_job_emails
    i,                \* offset of the current batch (the loop variable i)
    msg_data,         \* ids of the batch being walked (the fetch response)
    stop_processing,  \* process_job_emails: stop_processing
    applications,     \* process_job_emails: applications
    classified,       \* history: ids handed to classify_email, in order
    fed,              \* history: ids that reached the upsert step, in order
    unfetched,        \* history: ids whose fetch failed or came back truncated
    aborted,          \* history: the outer "except Exception" handler ran
    subject,          \* classifier harness: the subject under test
    body,             \* classifier harness: the body under test
    status            \* classifier harness: what classify_email returned

vars == <<variant, inbox, email_ids, pc, i, msg_data, stop_processing,
          applications, classified, fed, unfetched, aborted,
          subject, body, status>>

Variants == {"cli", "streamlit"}

None == "None"

----------------------------------------------------------------------------
(* Strings *)

Whitespace == {" ", "\n", "\t"}

\* str.lower(), and the case folding of re.I, token by token
LowerTok(t) ==
    CASE t = "Thank" -> "thank"
      [] t = "Unfortunately" -> "unfortunately"
      [] t = "We" -> "we"
      [] t = "What" -> "what"
      [] t = "You" -> "you"
      [] t = "Please" -> "please"
      [] t = "Interview" -> "interview"
      [] t = "Phone" -> "phone"
      [] t = "Offer" -> "offer"
      [] t = "Engineer" -> "engineer"
      [] t = "Unsubscribe" -> "unsubscribe"
      [] t = "Acme" -> "acme"
      [] t = "Amazon" -> "amazon"
      [] t = "AMAZON" -> "amazon"
      [] t = "Unknown" -> "unknown"
      [] t = "No" -> "no"
      [] t = "Reply" -> "reply"
      [] t = "Jobs" -> "jobs"
      [] OTHER -> t

Lower(s) == [n \in DOMAIN s |-> LowerTok(s[n])]

\* str.title(), token by token: first letter upper case, the rest lower case
TitleTok(t) ==
    CASE LowerTok(t) = "acme" -> "Acme"
      [] LowerTok(t) = "amazon" -> "Amazon"
      [] LowerTok(t) = "no" -> "No"
      [] LowerTok(t) = "reply" -> "Reply"
      [] LowerTok(t) = "jobs" -> "Jobs"
      [] OTHER -> t

Title(s) == [n \in DOMAIN s |-> TitleTok(s[n])]

\* p occurs in s at position n
OccursAt(p, s, n) ==
    /\ n >= 1
    /\ n + Len(p) - 1 <= Len(s)
    /\ \A k \in 1..Len(p) : s[n + k - 1] = p[k]

\* the Python test "p in s"
Contains(s, p) == \E n \in 1..(Len(s) + 1) : OccursAt(p, s, n)

\* str.strip(): leading and trailing whitespace removed
RECURSIVE LStrip(_)
LStrip(s) ==
    IF s # <<>> /\ Head(s) \in Whitespace THEN LStrip(Tail(s)) ELSE s

RECURSIVE RStrip(_)
RStrip(s) ==
    IF s # <<>> /\ s[Len(s)] \in Whitespace
    THEN RStrip(SubSeq(s, 1, Len(s) - 1)) ELSE s

Strip(s) == RStrip(LStrip(s))

\* s.split(sep)[-1]: str.split cuts at the occurrences of sep found from the
\* left, without overlap; the last piece is what follows the last cut
RECURSIVE SplitLast(_, _)
SplitLast(s, sep) ==
    IF ~Contains(s, sep) THEN s
    ELSE LET n == CHOOSE m \in 1..Len(s) :
                      /\ OccursAt(sep, s, m)
                      /\ \A l \in 1..(m - 1) : ~OccursAt(sep, s, l)
         IN  SplitLast(SubSeq(s, n + Len(sep), Len(s)), sep)

----------------------------------------------------------------------------
(* Patterns.  A compiled pattern is [first, second]: some phrase of first,  *)
(* then ".*" (any characters but a newline), then some phrase of second.   *)
(* A literal pattern has second = {<<>>}.  All are compiled with re.I.     *)
(* The token "RSQUO" is the character U+2019, the typographic apostrophe.  *)

Lit(p) == [first |-> {p}, second |-> {<<>>}]

Then(a, b) == [first |-> a, second |-> b]

\* pat.search(text)
RegexSearch(pat, text) ==
    LET s == Lower(text)
    IN  \E a \in pat.first, b \in pat.second :
          \E n \in 1..(Len(s) + 1), m \in 1..(Len(s) + 1) :
            /\ OccursAt(a, s, n)
            /\ m >= n + Len(a)
            /\ OccursAt(b, s, m)
            /\ \A k \in (n + Len(a))..(m - 1) : s[k] # "\n"
            /\ (b = <<>> => m = n + Len(a))

THANK_YOU_PATTERNS == <<
    Lit(<<"thank", " ", "you", " ", "for", " ", "applying">>),
    Lit(<<"thank", " ", "you", " ", "for", " ", "your", " ", "application">>),
    Lit(<<"we", " ", "received", " ", "your", " ", "application">>),
    Lit(<<"your", " ", "application", " ", "was", " ", "sent", " ", "to">>),
    Lit(<<"you", " ", "applied", " ", "to">>) >>

REJECTION_PATTERNS == <<
    Lit(<<"we", " ", "will", " ", "not", " ", "be", " ", "moving", " ", "forward">>),
    Lit(<<"we", " ", "have", " ", "decided", " ", "not", " ", "to", " ", "proceed">>),
    Lit(<<"we", " ", "regret", " ", "to", " ", "inform", " ", "you">>),
    Lit(<<"unfortunately">>),
    Lit(<<"we", " ", "reviewed", " ", "your", " ", "application">>),
    Lit(<<"not", " ", "a", " ", "good", " ", "fit">>),
    Lit(<<"better", " ", "match">>),
    Lit(<<"better", " ", "fit">>),
    Lit(<<"decided", " ", "to", " ", "proceed", " ", "with", " ", "a", " ", "shortlist">>),
    Lit(<<"decided", " ", "not", " ", "to", " ", "proceed">>),
    Lit(<<"regret", " ", "to", " ", "inform">>),
    Lit(<<"continue", " ", "our", " ", "search">>),
    Lit(<<"moving", " ", "forward", " ", "with", " ", "other", " ", "candidates">>) >>

INTERVIEW_PATTERNS == <<
    Then({<<"schedule">>, <<"availability">>, <<"book">>, <<"invite">>},
         {<<"interview">>}),
    Then({<<"interview">>}, {<<"schedule", "d">>, <<"invite">>, <<"book", "ing">>}),
    Lit(<<"invitation", " ", "to", " ", "interview">>),
    Then({<<"recruiter">>}, {<<"reach", " ", "out">>}) >>

INTERVIEW_FALSE_POSITIVES == <<
    Lit(<<"what", " ", "happens", " ", "next">>),
    Then({<<"you", "'", "ll", " ", "hear", " ", "from", " ", "us">>,
          <<"you", "RSQUO", "ll", " ", "hear", " ", "from", " ", "us">>}, {<<>>}),
    Lit(<<"shortlist", "ed", " ", "candidates">>),
    Lit(<<"you", " ", "are", " ", "not", " ", "selected">>),
    Lit(<<"plan", " ", "for", " ", "what", " ", "might", " ", "occur">>) >>

\* STATUS_PATTERNS of the streamlit variant: a dict, walked in insertion order
STATUS_PATTERNS == <<
    [status |-> "Interview Requested",
     patterns |-> INTERVIEW_PATTERNS \o <<
        Then({<<"schedule">>, <<"set", " ", "up">>, <<"arrange">>},
             {<<"call">>, <<"meeting">>, <<"interview">>}),
        Then({<<"phone">>, <<"video">>, <<"onsite">>}, {<<"interview">>}) >>],
    [status |-> "Rejected",
     patterns |-> REJECTION_PATTERNS \o <<
        Lit(<<"not", " ", "selected">>),
        Lit(<<"cannot", " ", "move", " ", "forward">>),
        Lit(<<"passed", " ", "on", " ", "your", " ", "application">>) >>],
    [status |-> "Application Sent",
     patterns |-> THANK_YOU_PATTERNS \o <<
        Then({<<"application">>, <<"submission">>},
             {<<"received">>, <<"submitted">>}),
        Then({<<"thank", " ", "you", " ", "for", " ", "your", " ", "interest">>,
              <<"thank", " ", "you", " ", "for", " ", "your", " ", "submission">>},
             {<<>>}) >>] >>

\* "pat.search(subject) or pat.search(body)" for some pattern of the list
AnyPatternMatches(pats, subj, bdy) ==
    \E n \in DOMAIN pats : RegexSearch(pats[n], subj) \/ RegexSearch(pats[n], bdy)

\* a variant that tries the rejection patterns before the interview patterns
classify_email_cli_RejectionFirst(subj, bdy) ==
    IF AnyPatternMatches(INTERVIEW_FALSE_POSITIVES, subj, bdy) THEN None
    ELSE IF AnyPatternMatches(REJECTION_PATTERNS, subj, bdy) THEN "Rejected"
    ELSE IF AnyPatternMatches(INTERVIEW_PATTERNS, subj, bdy)
         THEN "Interview Requested"
    ELSE IF AnyPatternMatches(THANK_YOU_PATTERNS, subj, bdy)
         THEN "Application Sent"
    ELSE None

\* classify_email of job_application_tracker.py
classify_email_cli(subj, bdy) ==
    IF AnyPatternMatches(INTERVIEW_FALSE_POSITIVES, subj, bdy) THEN None
    ELSE IF AnyPatternMatches(INTERVIEW_PATTERNS, subj, bdy)
         THEN "Interview Requested"
    ELSE IF AnyPatternMatches(REJECTION_PATTERNS, subj, bdy) THEN "Rejected"
    ELSE IF AnyPatternMatches(THANK_YOU_PATTERNS, subj, bdy)
         THEN "Application Sent"
    ELSE None

\* the loop "for status, patterns in STATUS_PATTERNS.items()", from group n on
RECURSIVE FirstGroup(_, _, _, _)
FirstGroup(groups, n, subj, bdy) ==
    IF n > Len(groups) THEN None
    ELSE IF AnyPatternMatches(groups[n].patterns, subj, bdy)
         THEN groups[n].status
    ELSE FirstGroup(groups, n + 1, subj, bdy)

\* a variant that checks the false positives against the subject alone
classify_email_streamlit_SubjectOnly(subj, bdy) ==
    IF AnyPatternMatches(INTERVIEW_FALSE_POSITIVES, subj, <<>>) THEN None
    ELSE FirstGroup(STATUS_PATTERNS, 1, subj, bdy)

\* classify_email of streamlit_job_tracker_app.py
classify_email_streamlit(subj, bdy) ==
    IF AnyPatternMatches(INTERVIEW_FALSE_POSITIVES, subj, bdy) THEN None
    ELSE FirstGroup(STATUS_PATTERNS, 1, subj, bdy)

classify_email(v, subj, bdy) ==
    IF v = "cli" THEN classify_email_cli(subj, bdy)
    ELSE classify_email_streamlit(subj, bdy)

----------------------------------------------------------------------------
(* Configuration and time.  Instants are hours; a Date header is either    *)
(* unparseable (valid = FALSE) or gives a local time and, when aware, a    *)
(* zone as an offset in hours; a header that names no zone is naive.       *)

EXCLUDED_KEYWORDS == <<
    <<"practice", " ", "starts">>, <<"lyrics">>, <<"trees", " ", "in", " ", "trust">>,
    <<"league", " ", "registration">>, <<"burnout", " ", "prevention">>,
    <<"unable", " ", "to", " ", "cancel">>, <<"spotlight", " ", "on">>,
    <<"serenade">>, <<"rear", " ", "of", " ", "the", " ", "property">>,
    <<"order", " ", "confirmation">>, <<"unsubscribe">> >>

EXCLUDED_COMPANIES == {
    <<"gmail">>, <<"chapelridge">>, <<"prayvine">>, <<"squaretrade">>,
    <<"amazon">>, <<"ottawa">>, <<"substack">>, <<"rallyandtap">>,
    <<"79246730">> }

LOOKBACK_DAYS == 90

HoursPerDay == 24

\* datetime.now(timezone.utc) when the run starts
Now == 100 * HoursPerDay

\* three_months_ago = datetime.now(timezone.utc) - timedelta(days=90)
three_months_ago == [utc |-> Now - LOOKBACK_DAYS * HoursPerDay, off |-> 0]

DateHeader(local, aware, zone) ==
    [valid |-> TRUE, local |-> local, aware |-> aware, zone |-> zone]

Garbage == [valid |-> FALSE, local |-> 0, aware |-> FALSE, zone |-> 0]

\* email.utils.parsedate_to_datetime raises on this header
DateRaises(h) == ~h.valid

\* parsedate_to_datetime, then "replace(tzinfo=timezone.utc)" for a naive
\* result: an aware datetime, its instant (utc) and its zone offset (off)
parsedate_to_datetime(h) ==
    IF ~h.aware THEN [utc |-> h.local, off |-> 0]
    ELSE [utc |-> h.local - h.zone, off |-> h.zone]

\* a variant that formats the day of the instant in UTC, whatever the zone
strftime_IgnoresZone(d) == d.utc \div HoursPerDay

\* date_obj.strftime("%Y-%m-%d"): the calendar day in the datetime's own zone
strftime(d) == (d.utc + d.off) \div HoursPerDay

\* aware datetimes compare by instant
DateBefore(a, b) == a.utc < b.utc

\* a variant whose window is one day too long
TooOld_DayLate(date_obj) == date_obj.utc < three_months_ago.utc - HoursPerDay

\* "if date_obj < three_months_ago": the message is out of the window
TooOld(date_obj) == DateBefore(date_obj, three_months_ago)

----------------------------------------------------------------------------
(* The record aggregator *)

Delims == {" ", "@", "<", ">", "\n", "\t", ","}

\* the tokens the class [\w.-] accepts
IsDomainTok(t) == t \notin Delims

\* re.findall(r'@([\w.-]+)', sender): the groups of the matches, in order; a
\* match starts at an "@" that a domain token follows and takes the longest run
RECURSIVE DomainRun(_)
DomainRun(s) ==
    IF s # <<>> /\ IsDomainTok(Head(s)) THEN <<Head(s)>> \o DomainRun(Tail(s))
    ELSE <<>>

RECURSIVE FindDomains(_)
FindDomains(s) ==
    IF s = <<>> THEN <<>>
    ELSE IF Head(s) = "@" /\ DomainRun(Tail(s)) # <<>>
         THEN <<DomainRun(Tail(s))>>
                \o FindDomains(SubSeq(s, 2 + Len(DomainRun(Tail(s))), Len(s)))
    ELSE FindDomains(Tail(s))

\* s.split(".")[0]
RECURSIVE BeforeDot(_)
BeforeDot(s) ==
    IF s = <<>> \/ Head(s) = "." THEN <<>>
    ELSE <<Head(s)>> \o BeforeDot(Tail(s))

\* company = company[0].split(".")[0].title() if company else "Unknown"
DeriveCompany(sender) ==
    LET found == FindDomains(sender)
    IN  IF found # <<>> THEN Title(BeforeDot(found[1])) ELSE <<"Unknown">>

\* a variant that forgets subject.lower()
is_irrelevant_email_CaseSensitive(subj, sender, company) ==
    \/ \E n \in DOMAIN EXCLUDED_KEYWORDS : Contains(subj, EXCLUDED_KEYWORDS[n])
    \/ Lower(company) \in EXCLUDED_COMPANIES

\* is_irrelevant_email(subject, sender, company)
is_irrelevant_email(subj, sender, company) ==
    LET lower_subject == Lower(subj)
        lower_company == Lower(company)
    IN  \/ \E n \in DOMAIN EXCLUDED_KEYWORDS :
             Contains(lower_subject, EXCLUDED_KEYWORDS[n])
        \/ lower_company \in EXCLUDED_COMPANIES

\* job_title = subject.split(" at ")[-1] if " at " in subject else subject
DeriveJobTitle(subj) == SplitLast(subj, <<" ", "at", " ">>)

\* variants of the guard with a plausible slip: the comparison turned round,
\* the comparison left out, ">=" for ">" and "!=" for ">"
ShouldReplace_Differs(apps, key, date_obj) ==
    \/ key \notin DOMAIN apps
    \/ date_obj.utc # apps[key].last_update.utc

ShouldReplace_KeepsOldest(apps, key, date_obj) ==
    \/ key \notin DOMAIN apps
    \/ DateBefore(date_obj, apps[key].last_update)

ShouldReplace_Always(apps, key, date_obj) == TRUE

ShouldReplace_NotOlder(apps, key, date_obj) ==
    \/ key \notin DOMAIN apps
    \/ ~DateBefore(date_obj, apps[key].last_update)

\* the test that guards the assignment into applications
ShouldReplace(apps, key, date_obj) ==
    \/ key \notin DOMAIN apps
    \/ DateBefore(apps[key].last_update, date_obj)

\* the record stored under the key
NewRecord(company, job_title, stat, date_obj, subj) ==
    [company |-> company,
     job_title |-> Strip(job_title),
     status |-> stat,
     date_applied |-> strftime(date_obj),
     last_update |-> date_obj,
     subject |-> subj]

\* the dict key of a message
DictKey(company, job_title) == <<company, job_title>>

\* "if key not in applications or ...: applications[key] = {...}"
Upsert(apps, company, job_title, stat, date_obj, subj) ==
    LET key == DictKey(company, job_title)
    IN  IF ShouldReplace(apps, key, date_obj)
        THEN [k \in DOMAIN apps \cup {key} |->
                 IF k = key
                 THEN NewRecord(company, job_title, stat, date_obj, subj)
                 ELSE apps[k]]
        ELSE apps

----------------------------------------------------------------------------
(* The messages a mailbox is drawn from *)

SubjApplied ==
    <<"Thank", " ", "you", " ", "for", " ", "applying", " ", "at", " ", "Engineer">>
SubjOffer == <<"Offer", " ", "at", " ", " ", "Engineer">>
SubjPlain == <<"Engineer">>
SubjUnsub == <<"Unsubscribe", " ", "at", " ", "Engineer">>

BodyEmpty == <<>>
BodySchedule == <<"Please", " ", "schedule", " ", "your", " ", "interview">>
BodyRegret == <<"We", " ", "regret", " ", "to", " ", "inform", " ", "you">>
BodyNext ==
    <<"Thank", " ", "you", " ", "for", " ", "applying", ".", " ",
      "What", " ", "happens", " ", "next">>

FromAcme == <<"jobs", "@", "acme", ".", "com">>
FromAmazon == <<"no", "-", "reply", "@", "AMAZON", ".", "com">>
FromNobody == <<"Recruiter">>
FromNoLabel == <<"x", "@", ".", "com">>

DateOld == DateHeader(three_months_ago.utc - 1, TRUE, 0)
DateCutoff == DateHeader(three_months_ago.utc, FALSE, 0)
DateEarly == DateHeader(three_months_ago.utc + 20, TRUE, 0)
DateEarlyEast == DateHeader(three_months_ago.utc + 30, TRUE, 10)
DateLate == DateHeader(three_months_ago.utc + 50, TRUE, 0)

Message(subj, sender, date, bdy) ==
    [subject |-> subj, sender |-> sender, date |-> date, body |-> bdy]

MsgApplied == Message(SubjApplied, FromAcme, DateEarly, BodyEmpty)
MsgRejectedEast == Message(SubjPlain, FromAcme, DateEarlyEast, BodyRegret)
MsgOffer == Message(SubjOffer, FromAcme, DateLate, BodySchedule)
MsgInterview == Message(SubjPlain, FromAcme, DateLate, BodySchedule)
MsgOld == Message(SubjApplied, FromAcme, DateOld, BodyEmpty)
MsgGarbled == Message(SubjApplied, FromAcme, Garbage, BodyEmpty)
MsgAmazon == Message(SubjPlain, FromAmazon, DateEarly, BodyRegret)
MsgUnsub == Message(SubjUnsub, FromAcme, DateLate, BodyRegret)
MsgNext == Message(SubjPlain, FromAcme, DateLate, BodyNext)
MsgNobody == Message(SubjApplied, FromNobody, DateCutoff, BodyEmpty)
MsgNoLabel == Message(SubjApplied, FromNoLabel, DateEarly, BodyEmpty)

Catalogue == <<
    MsgApplied, MsgRejectedEast, MsgOffer, MsgInterview, MsgOld, MsgGarbled,
    MsgAmazon, MsgUnsub, MsgNext, MsgNobody, MsgNoLabel >>

\* the catalogue positions of a set of messages
Kinds(msgs) == {c \in DOMAIN Catalogue : Catalogue[c] \in msgs}

\* mailboxes about one application: messages of one sender and role, with
\* equal and different dates, and messages the loop passes over
UpsertKinds ==
    Kinds({MsgApplied, MsgRejectedEast, MsgOffer, MsgInterview, MsgUnsub,
           MsgNext})

\* mailboxes about the feed: dates inside, at and outside the window and
\* unparseable, excluded and unusual senders
FeedKinds ==
    Kinds({MsgApplied, MsgOld, MsgGarbled, MsgAmazon, MsgUnsub, MsgNobody,
           MsgNoLabel})

\* the largest mailbox
MaxMsgs == 3

\* BATCH_SIZE (50 in the source), scaled to the mailboxes of the model
BATCH_SIZE == 2

\* the most entries of one fetch response that come back shorter than 2
MaxShort == 1

\* the sets of positions of a response of n entries that may come back short
ShortSets(n) == {x \in SUBSET (1..n) : Cardinality(x) <= MaxShort}

Mailboxes(kinds) ==
    UNION {[1..n -> kinds] : n \in 0..MaxMsgs}

\* the message an id names
Msg(id) == Catalogue[inbox[id]]

\* what the loop body derives from a message before it touches applications:
\* status, company, the verdict of the filter and job_title
Derive(v, m) ==
    LET company == DeriveCompany(m.sender)
    IN  [status |-> classify_email(v, m.subject, m.body),
         company |-> company,
         irrelevant |-> is_irrelevant_email(m.subject, m.sender, company),
         job_title |-> DeriveJobTitle(m.subject)]

\* Derive, tabulated once over the catalogue
Derived == [v \in Variants |-> [c \in DOMAIN Catalogue |-> Derive(v, Catalogue[c])]]

\* the message reaches the upsert: "if not status: continue" and
\* "if is_irrelevant_email(...): continue" both fall through
ReachesUpsert(v, c) ==
    Derived[v][c].status # None /\ ~Derived[v][c].irrelevant

\* what the loop body does with catalogue message c once its date passed the
\* checks: classify, derive the company, filter, derive the title, upsert
Ingest(v, apps, c) ==
    LET d == Derived[v][c]
        m == Catalogue[c]
    IN  IF ReachesUpsert(v, c)
        THEN Upsert(apps, d.company, d.job_title, d.status,
                    parsedate_to_datetime(m.date), m.subject)
        ELSE apps

----------------------------------------------------------------------------
(* process_job_emails *)

Range(f) == {f[n] : n \in DOMAIN f}

\* the subsequence of s at the positions of keep, in order
RECURSIVE Pick(_, _, _)
Pick(s, keep, n) ==
    IF n > Len(s) THEN <<>>
    ELSE (IF n \in keep THEN <<s[n]>> ELSE <<>>) \o Pick(s, keep, n + 1)

\* zip(dates, email_ids): as many pairs as the shorter of the two has
Zip(dates, ids) ==
    [n \in 1..(IF Len(dates) < Len(ids) THEN Len(dates) ELSE Len(ids)) |->
        <<dates[n], ids[n]>>]

\* sorted(pairs, key=lambda p: p[0], reverse=True): a stable sort, so pairs
\* of equal date keep their order
RECURSIVE InsertDesc(_, _)
InsertDesc(sorted, p) ==
    IF sorted = <<>> THEN <<p>>
    ELSE IF DateBefore(Head(sorted)[1], p[1]) THEN <<p>> \o sorted
    ELSE <<Head(sorted)>> \o InsertDesc(Tail(sorted), p)

RECURSIVE SortedDesc(_)
SortedDesc(pairs) ==
    IF pairs = <<>> THEN <<>>
    ELSE InsertDesc(SortedDesc(SubSeq(pairs, 1, Len(pairs) - 1)),
                    pairs[Len(pairs)])

InitWith(kinds) ==
    /\ variant \in Variants
    /\ inbox \in Mailboxes(kinds)
    /\ email_ids = <<>>
    /\ pc = "search"
    /\ i = 0
    /\ msg_data = <<>>
    /\ stop_processing = FALSE
    /\ applications = <<>>
    /\ classified = <<>>
    /\ fed = <<>>
    /\ unfetched = {}
    /\ aborted = FALSE
    /\ subject = <<>>
    /\ body = <<>>
    /\ status = None

Init == InitWith(UpsertKinds)

InitFeed == InitWith(FeedKinds)

\* mail.search and "email_ids = data[0].split()"; a failed search, or one
\* that finds nothing, ends the run with no applications
Search ==
    /\ pc = "search"
    /\ \E ok \in BOOLEAN :
         IF ok /\ Len(inbox) > 0
         THEN /\ email_ids' = [n \in 1..Len(inbox) |-> n]
              /\ pc' = "sort"
              /\ UNCHANGED aborted
         ELSE /\ pc' = "done"
              /\ aborted' = (~ok /\ variant = "streamlit")
              /\ UNCHANGED email_ids
    /\ UNCHANGED <<variant, inbox, i, msg_data, stop_processing, applications,
                   classified, fed, unfetched, subject, body, status>>

\* the result of the sort-by-date pass when the header fetch answers OK and
\* the entries at the positions of malformed are shorter than 2
SortByDate(ids, malformed) ==
    LET kept == Pick(ids, (1..Len(ids)) \ malformed, 1)
    IN  IF \E n \in DOMAIN kept : DateRaises(Msg(kept[n]).date)
        THEN ids
        ELSE LET dates == [n \in DOMAIN kept |->
                              parsedate_to_datetime(Msg(kept[n]).date)]
                 sorted == SortedDesc(Zip(dates, ids))
             IN  [n \in DOMAIN sorted |-> sorted[n][2]]

\* the "try: ... except Exception" block that sorts email_ids newest first
Sort ==
    /\ pc = "sort"
    /\ \E ok \in BOOLEAN, malformed \in ShortSets(Len(email_ids)) :
         email_ids' = IF ok THEN SortByDate(email_ids, malformed) ELSE email_ids
    /\ pc' = "batch"
    /\ i' = 0
    /\ UNCHANGED <<variant, inbox, msg_data, stop_processing, applications,
                   classified, fed, unfetched, aborted, subject, body, status>>

\* the head of the batch loop: "for i in range(0, len(email_ids), BATCH_SIZE)",
\* the fetch of the batch and "if result != 'OK': continue"; the entries at
\* the positions of truncated come back shorter than 2 and are passed over
FetchBatch ==
    /\ pc = "batch"
    /\ IF i >= Len(email_ids)
       THEN /\ pc' = "done"
            /\ UNCHANGED <<i, msg_data, unfetched>>
       ELSE LET last == IF i + BATCH_SIZE < Len(email_ids)
                        THEN i + BATCH_SIZE ELSE Len(email_ids)
                batch_ids == SubSeq(email_ids, i + 1, last)
            IN  \E ok \in BOOLEAN, truncated \in ShortSets(Len(batch_ids)) :
                  LET got == IF ok
                             THEN Pick(batch_ids,
                                       (1..Len(batch_ids)) \ truncated, 1)
                             ELSE <<>>
                  IN  /\ (~ok => truncated = {})
                      /\ unfetched' = unfetched \cup (Range(batch_ids) \ Range(got))
                      /\ msg_data' = got
                      /\ IF got = <<>>
                         THEN /\ i' = i + BATCH_SIZE
                              /\ pc' = "batch"
                         ELSE /\ pc' = "msg"
                              /\ UNCHANGED i
    /\ UNCHANGED <<variant, inbox, email_ids, stop_processing, applications,
                   classified, fed, aborted, subject, body, status>>

\* where the run goes after the message at the head of msg_data, unless the
\* loop was left by break or by an exception
NextMessage ==
    /\ msg_data' = Tail(msg_data)
    /\ IF Tail(msg_data) = <<>>
       THEN /\ i' = i + BATCH_SIZE
            /\ pc' = "batch"
       ELSE /\ pc' = "msg"
            /\ UNCHANGED i

\* one pass of the loop "for j in range(0, len(msg_data), 2)"
ProcessMessage ==
    /\ pc = "msg"
    /\ msg_data # <<>>
    /\ LET id == Head(msg_data)
           m == Msg(id)
       IN  IF DateRaises(m.date)
           THEN IF variant = "cli"
                THEN \* the exception reaches the outer handler
                     /\ aborted' = TRUE
                     /\ pc' = "done"
                     /\ UNCHANGED <<i, msg_data, stop_processing, applications,
                                    classified, fed>>
                ELSE \* "skipping message": continue
                     /\ NextMessage
                     /\ UNCHANGED <<stop_processing, applications, classified,
                                    fed, aborted>>
           ELSE IF TooOld(parsedate_to_datetime(m.date))
           THEN /\ stop_processing' = TRUE
                /\ pc' = "done"
                /\ UNCHANGED <<i, msg_data, applications, classified, fed,
                               aborted>>
           ELSE /\ classified' = Append(classified, id)
                /\ applications' = Ingest(variant, applications, inbox[id])
                /\ fed' = IF ReachesUpsert(variant, inbox[id])
                          THEN Append(fed, id) ELSE fed
                /\ NextMessage
                /\ UNCHANGED <<stop_processing, aborted>>
    /\ UNCHANGED <<variant, inbox, email_ids, unfetched, subject, body, status>>

Next == Search \/ Sort \/ FetchBatch \/ ProcessMessage

Spec == Init /\ [][Next]_vars

SpecFeed == InitFeed /\ [][Next]_vars

----------------------------------------------------------------------------
(* The classifier on its own: classify_email applied to one (subject, body) *)

SubjInvitation == <<"Interview", " ", "invitation", " ", "at", " ", "Acme">>
SubjUnfortunately == <<"Unfortunately">>
SubjNext == <<"What", " ", "happens", " ", "next">>
SubjPhone == <<"Phone", " ", "interview">>
SubjNotSelected == <<"You", " ", "are", " ", "not", " ", "selected">>

BodyReceived == <<"We", " ", "received", " ", "your", " ", "application", ".">>
BodyBrokenLine ==
    <<"Unfortunately", ",", " ", "we", " ", "cannot", " ", "schedule", "\n",
      "an", " ", "interview">>
BodyHear ==
    <<"You", "'", "ll", " ", "hear", " ", "from", " ", "us", " ", "to", " ",
      "schedule", " ", "an", " ", "interview">>
BodyInterest == <<"Thank", " ", "you", " ", "for", " ", "your", " ", "interest">>
BodyAll ==
    <<"Unfortunately", " ", "we", " ", "must", " ", "schedule", " ", "an", " ",
      "interview", ".", " ", "Thank", " ", "you", " ", "for", " ", "applying">>
BodyRegretThanks ==
    <<"We", " ", "regret", " ", "to", " ", "inform", " ", "you", ".", " ",
      "Thank", " ", "you", " ", "for", " ", "your", " ", "application">>

ClassifySubjects ==
    {<<>>, SubjApplied, SubjPlain, SubjInvitation, SubjUnfortunately, SubjNext,
     SubjPhone, SubjNotSelected}

ClassifyBodies ==
    {BodyEmpty, BodySchedule, BodyRegret, BodyNext, BodyReceived,
     BodyBrokenLine, BodyHear, BodyInterest, BodyAll, BodyRegretThanks}

InitClassify ==
    /\ variant \in Variants
    /\ subject \in ClassifySubjects
    /\ body \in ClassifyBodies
    /\ status = None
    /\ pc = "classify"
    /\ inbox = <<>>
    /\ email_ids = <<>>
    /\ i = 0
    /\ msg_data = <<>>
    /\ stop_processing = FALSE
    /\ applications = <<>>
    /\ classified = <<>>
    /\ fed = <<>>
    /\ unfetched = {}
    /\ aborted = FALSE

\* status = classify_email(subject, body)
Classify ==
    /\ pc = "classify"
    /\ status' = classify_email(variant, subject, body)
    /\ pc' = "classified"
    /\ UNCHANGED <<variant, inbox, email_ids, i, msg_data, stop_processing,
                   applications, classified, fed, unfetched, aborted,
                   subject, body>>

NextClassify == Classify

SpecClassify == InitClassify /\ [][NextClassify]_vars

----------------------------------------------------------------------------
(* What the histories say about the messages of a run *)

\* the catalogue message behind an id, and what the loop derived from it
CatOf(id) == inbox[id]
KeyOf(id) ==
    DictKey(Derived[variant][CatOf(id)].company,
            Derived[variant][CatOf(id)].job_title)
StatusOf(id) == Derived[variant][CatOf(id)].status
DateOf(id) == parsedate_to_datetime(Msg(id).date)
InstantOf(id) == DateOf(id).utc

\* the ids fed so far under key k, and the newest instant among them
FedUnder(k) == {id \in Range(fed) : KeyOf(id) = k}
NewestInstant(k) ==
    CHOOSE t \in {InstantOf(id) : id \in FedUnder(k)} :
        \A id \in FedUnder(k) : InstantOf(id) <= t

\* the map a fresh run builds from the catalogue messages cs, fed in order
RECURSIVE IngestAll(_, _, _)
IngestAll(v, apps, cs) ==
    IF cs = <<>> THEN apps
    ELSE IngestAll(v, Ingest(v, apps, Head(cs)), Tail(cs))

\* a sequence of numbers in ascending order
RECURSIVE InsertAsc(_, _)
InsertAsc(sorted, x) ==
    IF sorted = <<>> THEN <<x>>
    ELSE IF x < Head(sorted) THEN <<x>> \o sorted
    ELSE <<Head(sorted)>> \o InsertAsc(Tail(sorted), x)

RECURSIVE Ascending(_)
Ascending(xs) ==
    IF xs = <<>> THEN <<>> ELSE InsertAsc(Ascending(Tail(xs)), Head(xs))

\* the messages fed so far, in feed order, and the same messages rearranged
\* into one fixed order
FedMessages == [n \in DOMAIN fed |-> CatOf(fed[n])]
FedRearranged == Ascending(FedMessages)

\* s without its p-th element
RemoveAt(s, p) == SubSeq(s, 1, p - 1) \o SubSeq(s, p + 1, Len(s))

----------------------------------------------------------------------------
(* Claims *)

C2_OneRecordPerIdentity ==
    \A k1, k2 \in DOMAIN applications :
        (/\ applications[k1].company = applications[k2].company
         /\ applications[k1].job_title = applications[k2].job_title)
        => k1 = k2

\* the calendar day of an aware datetime, in its own zone
CalendarDay(d) == (d.utc + d.off) \div HoursPerDay

C4_OrderIndependent ==
    pc = "done" => applications = IngestAll(variant, <<>>, FedRearranged)

\* two different messages under key k carry the same instant
HasTie(k) ==
    \E a, b \in FedUnder(k) : CatOf(a) # CatOf(b) /\ InstantOf(a) = InstantOf(b)

\* C4 as amended: the final map has the same keys, and under each key the
\* same company, job_title and last_update instant, whatever the order; the
\* whole record is the same when no two different messages of the key carry
\* equal timestamps.
C4_OrderIndependentButTies ==
    pc = "done" =>
        LET other == IngestAll(variant, <<>>, FedRearranged)
        IN  /\ DOMAIN applications = DOMAIN other
            /\ \A k \in DOMAIN applications :
                 /\ applications[k].company = other[k].company
                 /\ applications[k].job_title = other[k].job_title
                 /\ applications[k].last_update.utc = other[k].last_update.utc
                 /\ (~HasTie(k) => applications[k] = other[k])

\* C4 witness: a run ended after feeding an older message of a key behind a
\* newer one of another catalogue position, an order the fixed order reverses
C4_Witness ==
    /\ pc = "done"
    /\ \E n, m \in DOMAIN fed :
         /\ n < m
         /\ CatOf(fed[n]) > CatOf(fed[m])
         /\ KeyOf(fed[n]) = KeyOf(fed[m])
         /\ InstantOf(fed[n]) # InstantOf(fed[m])

\* C5: a message ingested a second time, wherever in the sequence, leaves
\* the map what it is without that second occurrence.
C5_SecondIngestChangesNothing ==
    \A p \in DOMAIN fed :
        (\E q \in 1..(p - 1) : FedMessages[q] = FedMessages[p])
        => applications = IngestAll(variant, <<>>, RemoveAt(FedMessages, p))

\* C5 witness: the same message was ingested twice, with a different message
\* of the same key and instant between the two, and the map still holds the
\* record made at its first occurrence
C5_Witness ==
    \E q, r, p \in DOMAIN fed :
        /\ q < r /\ r < p
        /\ FedMessages[q] = FedMessages[p]
        /\ FedMessages[r] # FedMessages[p]
        /\ KeyOf(fed[r]) = KeyOf(fed[p])
        /\ InstantOf(fed[r]) = InstantOf(fed[p])
        /\ applications[KeyOf(fed[p])].subject = Msg(fed[q]).subject
        /\ applications[KeyOf(fed[p])].status = StatusOf(fed[q])

\* group g of variant v has a pattern that matches the subject or the body
GroupMatches(pats, subj, bdy) ==
    \E n \in DOMAIN pats, text \in {subj, bdy} : RegexSearch(pats[n], text)

GroupOf(v, label) ==
    IF v = "cli"
    THEN CASE label = "Interview Requested" -> INTERVIEW_PATTERNS
           [] label = "Rejected" -> REJECTION_PATTERNS
           [] label = "Application Sent" -> THANK_YOU_PATTERNS
    ELSE STATUS_PATTERNS[CHOOSE n \in DOMAIN STATUS_PATTERNS :
                             STATUS_PATTERNS[n].status = label].patterns

Suppressed == GroupMatches(INTERVIEW_FALSE_POSITIVES, subject, body)
Hits(label) == GroupMatches(GroupOf(variant, label), subject, body)

\* C6: when a false-positive suppressor matches the subject or the body,
\* classify_email returns no label, whatever else matches (both variants).
C6_SuppressorGivesNoLabel ==
    (pc = "classified" /\ Suppressed) => status = None

\* C6 witness: a suppressor in the body alone, with an interview pattern and
\* an acknowledgment pattern matching too
C6_Witness ==
    /\ pc = "classified"
    /\ GroupMatches(INTERVIEW_FALSE_POSITIVES, <<>>, body)
    /\ ~GroupMatches(INTERVIEW_FALSE_POSITIVES, subject, <<>>)
    /\ Hits("Interview Requested")
    /\ Hits("Application Sent")
    /\ status = None

\* C7: with no suppressor matching, classify_email returns the label of the
\* first group, in the order Interview Requested, Rejected, Application Sent,
\* that has a pattern matching the subject or the body, and no label when
\* none has (both variants).
C7_FirstGroupInPrecedence ==
    (pc = "classified" /\ ~Suppressed) =>
        status = IF Hits("Interview Requested") THEN "Interview Requested"
                 ELSE IF Hits("Rejected") THEN "Rejected"
                 ELSE IF Hits("Application Sent") THEN "Application Sent"
                 ELSE None

\* C7 witness: interview, rejection and acknowledgment patterns all match
\* and the label is Interview Requested
C7_Witness ==
    /\ pc = "classified"
    /\ ~Suppressed
    /\ Hits("Interview Requested")
    /\ Hits("Rejected")
    /\ Hits("Application Sent")
    /\ status = "Interview Requested"

\* the catalogue messages the filter is to drop, and their subjects
HasExcludedKeyword(subj) ==
    \E n \in DOMAIN EXCLUDED_KEYWORDS : Contains(Lower(subj), EXCLUDED_KEYWORDS[n])
KeywordSubjects ==
    {Catalogue[c].subject : c \in {x \in DOMAIN Catalogue :
                                     HasExcludedKeyword(Catalogue[x].subject)}}
ExcludedMessages ==
    {c \in DOMAIN Catalogue :
        \/ HasExcludedKeyword(Catalogue[c].subject)
        \/ Lower(DeriveCompany(Catalogue[c].sender)) \in EXCLUDED_COMPANIES}

\* C8: a classified message with an excluded keyword in its subject or an
\* excluded company never reaches the upsert, and no record has an excluded
\* company or a subject with an excluded keyword.
C8_ExcludedNeverRecorded ==
    /\ \A id \in Range(fed) : CatOf(id) \notin ExcludedMessages
    /\ \A k \in DOMAIN applications :
         /\ applications[k].subject \notin KeywordSubjects
         /\ Lower(applications[k].company) \notin EXCLUDED_COMPANIES
         /\ Lower(k[1]) \notin EXCLUDED_COMPANIES

\* C8 witness: after a record was made, a classified message with an
\* excluded keyword and one of an excluded company were passed over
C8_Witness ==
    /\ pc = "done"
    /\ DOMAIN applications # {}
    /\ Len(fed) = 1
    /\ \E a, b \in Range(classified) :
         /\ StatusOf(a) # None /\ StatusOf(b) # None
         /\ HasExcludedKeyword(Msg(a).subject)
         /\ Lower(DeriveCompany(Msg(b).sender)) \in EXCLUDED_COMPANIES
         /\ a \notin Range(fed) /\ b \notin Range(fed)

\* C9: a message with an unparseable Date is not ingested and does not end
\* the scan: in a run that ended without meeting an old message, every
\* message that was fetched whole and has a parseable date was classified
\* (both variants).
C9_BadDateSkippedScanGoesOn ==
    /\ \A id \in Range(classified) : ~DateRaises(Msg(id).date)
    /\ (pc = "done" /\ ~stop_processing) =>
          \A id \in Range(email_ids) :
              \/ id \in unfetched
              \/ DateRaises(Msg(id).date)
              \/ id \in Range(classified)

\* C10: no message dated before the cutoff is handed to classify_email or
\* to the upsert, and every record's last_update is at or after the cutoff.
C10_NothingBeforeCutoff ==
    /\ Range(fed) \subseteq Range(classified)
    /\ \A id \in Range(classified) :
         InstantOf(id) >= Now - LOOKBACK_DAYS * HoursPerDay
    /\ \A k \in DOMAIN applications :
         applications[k].last_update.utc >= Now - LOOKBACK_DAYS * HoursPerDay

\* C10 witness: the scan stopped at a message older than the cutoff after a
\* message dated exactly at the cutoff had been classified and recorded
C10_Witness ==
    /\ stop_processing
    /\ \E id \in Range(fed) : InstantOf(id) = Now - LOOKBACK_DAYS * HoursPerDay
    /\ \E id \in Range(email_ids) :
         /\ ~DateRaises(Msg(id).date)
         /\ InstantOf(id) < Now - LOOKBACK_DAYS * HoursPerDay
         /\ id \notin Range(classified)

\* C11: across every step of the scan, every key present before the step is
\* still present after it, and its last_update after the step is not earlier
\* than its last_update before the step.
C11_MonotonicCollection ==
    [][\A k \in DOMAIN applications :
          /\ k \in DOMAIN applications'
          /\ ~DateBefore(applications'[k].last_update, applications[k].last_update)]_vars

\* C11 witness: a key's record was made, then replaced by a newer message,
\* then an older message of the key was ingested and the record kept the
\* newer instant
C11_Witness ==
    \E p, q, r \in DOMAIN fed :
        /\ p < q /\ q < r
        /\ KeyOf(fed[p]) = KeyOf(fed[q]) /\ KeyOf(fed[q]) = KeyOf(fed[r])
        /\ InstantOf(fed[p]) < InstantOf(fed[q])
        /\ InstantOf(fed[r]) < InstantOf(fed[q])
        /\ applications[KeyOf(fed[q])].last_update.utc = InstantOf(fed[q])

\* C12: the company derived from any sender is a non-empty string, and it is
\* "Unknown" when the sender has no domain; so every record's company is
\* non-empty.
C12_CompanyNeverEmpty ==
    /\ \A id \in Range(classified) :
         StatusOf(id) # None =>
             /\ Derived[variant][CatOf(id)].company # <<>>
             /\ (FindDomains(Msg(id).sender) = <<>>
                 => Derived[variant][CatOf(id)].company = <<"Unknown">>)
    /\ \A k \in DOMAIN applications :
         applications[k].company # <<>> /\ k[1] # <<>>

\* a holds the elements of b, each as often as b does
IsPermutation(a, b) ==
    /\ Len(a) = Len(b)
    /\ \A x \in Range(a) \cup Range(b) :
         Cardinality({n \in DOMAIN a : a[n] = x})
           = Cardinality({n \in DOMAIN b : b[n] = x})

\* no id stands behind an id whose own date is older
NewestFirst(ids) ==
    \A n, m \in DOMAIN ids :
        n < m => ~DateBefore(DateOf(ids[n]), DateOf(ids[m]))

\* C13: the sort-by-date pass only reorders the ids: the list it hands to the
\* batch loop is a permutation of the list the search returned, and each id
\* is ordered by its own date (the list is newest first by the ids' own
\* dates unless the pass left it as it was), also when entries of the
\* header-fetch response are shorter than 2 and skipped.
C13_SortOnlyReorders ==
    [][pc = "sort" =>
          /\ IsPermutation(email_ids', email_ids)
          /\ (email_ids' = email_ids \/ NewestFirst(email_ids)')]_vars

\* the ids the scan has not come to when it stops at the head of msg_data:
\* the rest of the current batch and all later batches
NotYetProcessed ==
    Range(Tail(msg_data))
      \cup {email_ids[n] : n \in (i + BATCH_SIZE + 1)..Len(email_ids)}

\* the message is inside the lookback window
InWindow(id) == ~DateRaises(Msg(id).date) /\ ~TooOld(DateOf(id))

\* C14: when the scan stops because it met a message older than the cutoff,
\* no message it has not yet processed is inside the window, whether or not
\* the sort-by-date pass ran.
C14_EarlyStopLosesNothing ==
    stop_processing => \A id \in NotYetProcessed : ~InWindow(id)

====
